---- MODULE Spec2Model ----
(***************************************************************************)
(* Model of calculate_reimbursement.py: the reimbursement calculation      *)
(* (calculate_reimbursement) and the command-line entry point (main).      *)
(*                                                                         *)
(* Numbers.  A Python float is modelled by an exact rational: an integer   *)
(* count of 1/Unit dollars (or miles).  With whole-number miles and        *)
(* receipts every intermediate of the pipeline is a multiple of 1/Unit:    *)
(* the per diem is a multiple of 1/40, the mileage of 1/200, the receipt   *)
(* adjustment of 1/800 and the cycle factor adds a factor 1/20.  Binary    *)
(* rounding error of the floats is not modelled: at an exact decimal tie   *)
(* round(x, 2) is taken to the even cent, where the float, which lies just *)
(* beside the tie, may go to the other cent.  Infinities and NaN are not   *)
(* modelled.  A Python int (the trip duration) is an integer; converting   *)
(* it to a float fails beyond FloatMaxInt.  The returned amount is a whole *)
(* number of cents.                                                        *)
(***************************************************************************)
EXTENDS Integers, Sequences, FiniteSets

VARIABLES
    PER_DIEM_TABLE,   \* the module-level rate table
    rng,              \* state of the process-wide random source
    pc,               \* "idle" | "returned" | "exited"
    call,             \* the last call of calculate_reimbursement: arguments, locals, outcome
    proc,             \* the last run of main: argv, stdout, stderr, exit status
    earlier           \* observer (SpecHistory): the first deterministic call of each probed input

vars == <<PER_DIEM_TABLE, rng, pc, call, proc, earlier>>

----------------------------------------------------------------------------
\* Bounds of the explored inputs.

\* trip_duration_days ranges over -NegDays..MaxDays (and the two huge ints)
NegDays == 2
MaxDays == 17
\* miles_traveled ranges over 50*k-1, 50*k, 50*k+1 for k in 0..MaxMilesK, and 10
MaxMilesK == 17
\* total_receipts_amount ranges over 100*k for k in 0..MaxReceiptsK, and the
\* values next to the thresholds 0, 50, 500 and 1000
MaxReceiptsK == 12
\* main's argument list (sys.argv[1:]) has 0..MaxArgs entries
MaxArgs == 4
\* random.random() returns one of k/RandSteps, k in 0..RandSteps-1
RandSteps == 4

\* Units per dollar: 800 for the rates of steps 3 to 5, 20 for the cycle factor.
Unit == 800 * 20

\* Stand-in for the largest int that converts to a float (2^1024 - 2^970 in
\* CPython), scaled down to the model's integers.
FloatMaxInt == 1000000
HugeInt == FloatMaxInt + 1

Days == (-NegDays..MaxDays) \cup {HugeInt, -HugeInt}
Miles == {50 * k + j : k \in 0..MaxMilesK, j \in {-1, 0, 1}} \cup {10}
Receipts == {100 * k : k \in 0..MaxReceiptsK} \cup {-1, 49, 50, 501, 1001}

----------------------------------------------------------------------------
\* Arithmetic helpers.

Frac(n, d) == [num |-> n, den |-> d]

\* x * f for a float x (in units) and a decimal literal f = num/den, rounded
\* down to a unit (every product of the pipeline is a whole number of units)
Times(x, f) == (x \div f.den) * f.num + ((x % f.den) * f.num) \div f.den

Min(a, b) == IF a <= b THEN a ELSE b

Abs(x) == IF x < 0 THEN -x ELSE x

\* float(n) for an int n: raises OverflowError beyond the float range
FloatOverflows(n) == Abs(n) > FloatMaxInt

----------------------------------------------------------------------------
\* calculate_reimbursement, step by step.

Table ==
    [Low    |-> [BaseRate |-> 15, MieRate |-> 5],
     Medium |-> [BaseRate |-> 50, MieRate |-> 15],
     High   |-> [BaseRate |-> 65, MieRate |-> 20]]

\* Step 1.  The quotient miles/days as a fraction with a positive denominator;
\* raised names the exception of the division, if any.
Efficiency(days, miles) ==
    IF days > 0
    THEN IF FloatOverflows(days)
         THEN [raised |-> "OverflowError", num |-> 0, den |-> 1, divided |-> TRUE]
         ELSE [raised |-> "none", num |-> miles, den |-> days, divided |-> TRUE]
    ELSE [raised |-> "none", num |-> 0, den |-> 1, divided |-> FALSE]

\* efficiency > k, efficiency < k, efficiency <= k for an integer k
EffGT(e, k) == e.num > k * e.den
EffLT(e, k) == e.num < k * e.den
EffLE(e, k) == e.num <= k * e.den

\* Step 2
Location(e, days, miles, receipts) ==
    IF EffGT(e, 200) \/ (miles > 800 /\ receipts > 1000) THEN "High"
    ELSE IF EffLT(e, 50) \/ (days > 7 /\ EffLT(e, 100)) THEN "Low"
    ELSE "Medium"

\* Mutant of PerDiemBase: the two travel days get the full M&IE rate.
PerDiemBaseFullRate(table, location, days) ==
    LET whole == (table[location].BaseRate + table[location].MieRate) * days
    IN  IF FloatOverflows(whole)
        THEN [raised |-> "OverflowError", value |-> 0]
        ELSE [raised |-> "none", value |-> whole * Unit]

\* Step 3, lines 39-43: the per diem before the duration multiplier.  The
\* product of the rates and the days is an int, which the float arithmetic
\* that follows converts.
PerDiemBase(table, location, days) ==
    LET base_rate == table[location].BaseRate
        m_and_ie_rate == table[location].MieRate
        whole == IF days >= 2
                 THEN (base_rate + m_and_ie_rate) * (days - 2)
                 ELSE (base_rate + m_and_ie_rate) * days
    IN  IF FloatOverflows(whole)
        THEN [raised |-> "OverflowError", value |-> 0]
        ELSE [raised |-> "none",
              value  |-> IF days >= 2
                         THEN whole * Unit
                              + (base_rate * Unit + Times(m_and_ie_rate * Unit, Frac(3, 4))) * 2
                         ELSE whole * Unit]

\* Step 3, lines 45-49
DurationFactor(location, days) ==
    IF days = 5 THEN Frac(23, 20)
    ELSE IF days > 7 THEN (IF location = "Low" THEN Frac(2, 5) ELSE Frac(4, 5))
    ELSE Frac(1, 1)

\* Step 4, lines 54-61: the tiered mileage before the efficiency multiplier
MileageTiers(miles) ==
    IF miles >= 50
    THEN IF miles <= 100 THEN Times(miles * Unit, Frac(7, 10))
         ELSE IF miles <= 500
              THEN Times(100 * Unit, Frac(7, 10)) + Times((miles - 100) * Unit, Frac(3, 5))
              ELSE Times(100 * Unit, Frac(7, 10)) + Times(400 * Unit, Frac(3, 5))
                   + Times((miles - 500) * Unit, Frac(1, 2))
    ELSE 0

\* Mutant of EfficiencyBranch: the penalty is tested before the reward.
EfficiencyBranchPenaltyFirst(e, days) ==
    IF EffGT(e, 300) /\ days > 1 THEN "penalty"
    ELSE IF EffGT(e, 200) THEN "reward"
    ELSE IF EffGT(e, 100) /\ EffLE(e, 200) THEN "moderate"
    ELSE "none"

\* Step 4, lines 63-69: which branch of the efficiency multiplier is taken
EfficiencyBranch(e, days) ==
    IF EffGT(e, 200) THEN "reward"
    ELSE IF EffGT(e, 100) /\ EffLE(e, 200) THEN "moderate"
    ELSE IF EffGT(e, 300) /\ days > 1 THEN "penalty"
    ELSE "none"

EfficiencyFactor(e, days) ==
    CASE EfficiencyBranch(e, days) = "reward"   -> Frac(6, 5)
      [] EfficiencyBranch(e, days) = "moderate" -> Frac(23, 20)
      [] EfficiencyBranch(e, days) = "penalty"  -> Frac(9, 10)
      [] OTHER                                  -> Frac(1, 1)

\* Step 5, lines 74-81
ReceiptBranch(days, receipts) ==
    IF receipts < 50 THEN "ignored"
    ELSE IF receipts <= 500 /\ days <= 6 THEN "capped"
    ELSE "excess"

Excess(e, per_diem, receipts) ==
    Min(receipts * Unit - per_diem, (IF EffLT(e, 100) THEN 200 ELSE 500) * Unit)

\* Mutant of ReceiptAdjustment: the third branch forgets the per diem.
ReceiptAdjustmentExcessOnly(e, days, per_diem, receipts) ==
    CASE ReceiptBranch(days, receipts) = "ignored" -> per_diem
      [] ReceiptBranch(days, receipts) = "capped"  ->
            Min(Times(per_diem, Frac(4, 5)), receipts * Unit)
      [] OTHER -> Times(Excess(e, per_diem, receipts), Frac(3, 20))

ReceiptAdjustment(e, days, per_diem, receipts) ==
    CASE ReceiptBranch(days, receipts) = "ignored" -> per_diem
      [] ReceiptBranch(days, receipts) = "capped"  ->
            Min(Times(per_diem, Frac(4, 5)), receipts * Unit)
      [] OTHER -> per_diem + Times(Excess(e, per_diem, receipts), Frac(3, 20))

\* Mutant of CycleFactor: the efficiency threshold is 10, not 100.
CycleFactorLowThreshold(e, location) ==
    IF location = "Low" /\ EffLT(e, 10) THEN Frac(17, 20) ELSE Frac(1, 1)

\* Step 6, lines 84-85
CycleFactor(e, location) ==
    IF location = "Low" /\ EffLT(e, 100) THEN Frac(17, 20) ELSE Frac(1, 1)

\* Mutant of Cap: $100 per trip, not per day.
CapPerTrip(e, days, reimbursement) ==
    IF EffLT(e, 50) THEN Min(reimbursement, 100 * Unit) ELSE reimbursement

\* Step 8, lines 92-93
Cap(e, days, reimbursement) ==
    IF EffLT(e, 50) THEN Min(reimbursement, days * 100 * Unit) ELSE reimbursement

\* Mutant of NoiseFactor: 0.90 + random.random() * 0.20 (10% noise).
NoiseFactorTenPercent(r) == Frac(90 * RandSteps + 20 * r, 100 * RandSteps)

\* Step 9, line 97: 0.95 + random.random() * 0.10, for random.random() = r/RandSteps
NoiseFactor(r) == Frac(95 * RandSteps + 10 * r, 100 * RandSteps)

\* An amount times a noise factor, exactly: whole units and a remainder of
\* frac/den units, 0 <= frac < den.
Scaled(x, f) ==
    LET q == x \div f.den
        b == x % f.den
    IN  [whole |-> q * f.num + (b * f.num) \div f.den,
         frac  |-> (b * f.num) % f.den,
         den   |-> f.den]

Exact(x) == [whole |-> x, frac |-> 0, den |-> 1]

\* Mutant of Noise: the factor is applied whatever add_noise says.
NoiseAlways(capped, add_noise, r) ==
    [factors |-> <<NoiseFactor(r)>>, amount |-> Scaled(capped, NoiseFactor(r))]

\* Step 9, lines 96-98: the factors applied and the amount that goes to rounding
Noise(capped, add_noise, r) ==
    IF add_noise
    THEN [factors |-> <<NoiseFactor(r)>>, amount |-> Scaled(capped, NoiseFactor(r))]
    ELSE [factors |-> <<>>, amount |-> Exact(capped)]

\* Step 10, line 101: round(x, 2) in cents, ties to even
Round2(a) ==
    LET per_cent == Unit \div 100
        q == a.whole \div per_cent
        rest == (a.whole % per_cent) * a.den + a.frac    \* over per_cent * a.den
        half == per_cent * a.den
    IN  IF 2 * rest < half THEN q
        ELSE IF 2 * rest > half THEN q + 1
        ELSE IF q % 2 = 0 THEN q ELSE q + 1

\* The outcome of a call that raised: no local past the raising line is set.
Raising(exception, e) ==
    [raised |-> exception, efficiency |-> e, location |-> "unset",
     per_diem_base |-> 0, per_diem |-> 0, mileage_reimbursement |-> 0,
     efficiency_branch |-> "unset", efficiency_factor |-> Frac(1, 1),
     receipt_branch |-> "unset",
     receipt_adjustment |-> 0, cycle_factor |-> Frac(1, 1), combined |-> 0,
     capped |-> 0, noise_factors |-> <<>>, unrounded |-> Exact(0), result |-> 0]

\* calculate_reimbursement(days, miles, receipts, use_system_date, add_noise),
\* lines 11-103, with the rate table it reads and the value r/RandSteps that
\* random.random() returns if it is called.  The locals keep the source's names;
\* amounts are in units, result is in cents.
Calculate(table, days, miles, receipts, use_system_date, add_noise, r) ==
    LET efficiency == Efficiency(days, miles)
    IN  IF efficiency.raised # "none" THEN Raising(efficiency.raised, efficiency)
        ELSE
        LET location == Location(efficiency, days, miles, receipts)
            base == PerDiemBase(table, location, days)
        IN  IF base.raised # "none" THEN Raising(base.raised, efficiency)
            ELSE
            LET per_diem == Times(base.value, DurationFactor(location, days))
                efficiency_factor == EfficiencyFactor(efficiency, days)
                mileage_reimbursement == Times(MileageTiers(miles), efficiency_factor)
                receipt_adjustment ==
                    ReceiptAdjustment(efficiency, days, per_diem, receipts)
                cycle_factor == CycleFactor(efficiency, location)
                combined ==
                    Times(per_diem + mileage_reimbursement + receipt_adjustment,
                          cycle_factor)
                capped == Cap(efficiency, days, combined)
                noise == Noise(capped, add_noise, r)
            IN  [raised |-> "none", efficiency |-> efficiency, location |-> location,
                 per_diem_base |-> base.value, per_diem |-> per_diem,
                 mileage_reimbursement |-> mileage_reimbursement,
                 efficiency_branch |-> EfficiencyBranch(efficiency, days),
                 efficiency_factor |-> efficiency_factor,
                 receipt_branch |-> ReceiptBranch(days, receipts),
                 receipt_adjustment |-> receipt_adjustment,
                 cycle_factor |-> cycle_factor, combined |-> combined,
                 capped |-> capped,
                 noise_factors |-> noise.factors,
                 unrounded |-> noise.amount, result |-> Round2(noise.amount)]

----------------------------------------------------------------------------
\* The state machine: a caller of the function, and runs of the program.

NoCall == [made |-> FALSE]
NoProc == [ran |-> FALSE]

\* the inputs (days, miles, receipts) whose repeated calls SpecHistory observes
ProbeInputs == {<<1, 10, 0>>, <<5, 500, 600>>, <<17, 849, 1200>>}

Init ==
    /\ PER_DIEM_TABLE = Table
    /\ rng \in 0..(RandSteps - 1)
    /\ pc = "idle"
    /\ call = NoCall
    /\ proc = NoProc
    /\ earlier = [i \in ProbeInputs |-> NoCall]

\* random.random(): the value the generator's state yields, and its next state
NextRng(s) == (s + 1) % RandSteps

CallRecord(days, miles, receipts, use_system_date, add_noise) ==
    [made |-> TRUE,
     days |-> days, miles |-> miles, receipts |-> receipts,
     use_system_date |-> use_system_date, add_noise |-> add_noise,
     out |-> Calculate(PER_DIEM_TABLE, days, miles, receipts,
                       use_system_date, add_noise, rng)]

\* The effect of one call of calculate_reimbursement: random.random() is
\* reached (line 97) only with add_noise and when no earlier line raised.
Invoke(days, miles, receipts, use_system_date, add_noise) ==
    /\ call' = CallRecord(days, miles, receipts, use_system_date, add_noise)
    /\ rng' = IF add_noise /\ call'.out.raised = "none" THEN NextRng(rng) ELSE rng
    /\ UNCHANGED PER_DIEM_TABLE

\* A call from library code.
LibraryCall(days, miles, receipts, use_system_date, add_noise) ==
    /\ pc = "idle"
    /\ Invoke(days, miles, receipts, use_system_date, add_noise)
    /\ pc' = "returned"
    /\ UNCHANGED proc

Call ==
    /\ pc = "idle"
    /\ \E days \in Days, miles \in Miles, receipts \in Receipts,
          use_system_date \in BOOLEAN, add_noise \in BOOLEAN :
           /\ LibraryCall(days, miles, receipts, use_system_date, add_noise)
           /\ UNCHANGED earlier

\* The caller takes the result (or the exception), or the process is gone: the
\* next call or run starts afresh.
Resume ==
    /\ pc \in {"returned", "exited"}
    /\ pc' = "idle"
    /\ call' = NoCall
    /\ proc' = NoProc
    /\ UNCHANGED <<PER_DIEM_TABLE, rng, earlier>>

----------------------------------------------------------------------------
\* main, lines 105-118.  A command-line argument is a sequence of characters.

Digits == {"0", "1", "2", "3", "4", "5", "6", "7", "8", "9"}

DigitValue(c) ==
    CASE c = "0" -> 0 [] c = "1" -> 1 [] c = "2" -> 2 [] c = "3" -> 3
      [] c = "4" -> 4 [] c = "5" -> 5 [] c = "6" -> 6 [] c = "7" -> 7
      [] c = "8" -> 8 [] c = "9" -> 9

RECURSIVE NatValue(_)
NatValue(ds) ==
    IF ds = <<>> THEN 0
    ELSE 10 * NatValue(SubSeq(ds, 1, Len(ds) - 1)) + DigitValue(ds[Len(ds)])

RECURSIVE Pow10(_)
Pow10(n) == IF n = 0 THEN 1 ELSE 10 * Pow10(n - 1)

Signed(tok) == tok # <<>> /\ tok[1] \in {"+", "-"}
Unsigned(tok) == IF Signed(tok) THEN Tail(tok) ELSE tok
Sign(tok) == IF tok # <<>> /\ tok[1] = "-" THEN -1 ELSE 1

\* int(tok), line 111: an optional sign and at least one digit (blanks around
\* the literal and underscores between digits are not in the explored tokens)
ParseInt(tok) ==
    LET u == Unsigned(tok)
    IN  IF u # <<>> /\ \A i \in 1..Len(u) : u[i] \in Digits
        THEN [ok |-> TRUE, value |-> Sign(tok) * NatValue(u)]
        ELSE [ok |-> FALSE, value |-> 0]

\* float(tok), lines 112-113: an optional sign, digits and at most one point,
\* with a digit on one side of it at least (exponents, inf and nan are not in
\* the explored tokens).  The value is num/den.
ParseFloat(tok) ==
    LET u == Unsigned(tok)
        points == {i \in 1..Len(u) : u[i] = "."}
        p == IF points = {} THEN Len(u) + 1 ELSE CHOOSE i \in points : TRUE
        mantissa == SubSeq(u, 1, p - 1) \o SubSeq(u, p + 1, Len(u))
    IN  IF /\ Cardinality(points) <= 1
           /\ mantissa # <<>>
           /\ \A i \in 1..Len(mantissa) : mantissa[i] \in Digits
        THEN [ok |-> TRUE, num |-> Sign(tok) * NatValue(mantissa),
              den |-> Pow10(IF points = {} THEN 0 ELSE Len(u) - p)]
        ELSE [ok |-> FALSE, num |-> 0, den |-> 1]

\* The explored floats are whole numbers: the value the calculation is given.
Whole(f) == f.num \div f.den

Tokens ==
    { <<"5">>, <<"1", "7">>, <<"8", "1", "6">>, <<"1", "2", "0", "0", ".", "0">>,
      <<"-", "1">>, <<"a", "b", "c">>, <<>> }

\* an int literal beyond the float range
HugeToken == <<"9", "9", "9", "9", "9", "9", "9">>

\* the explored first arguments of a run with three arguments
DayTokens ==
    { <<"5">>, <<"1", "7">>, <<"5", ".", "0">>, <<"-", "1">>, <<"a", "b", "c">>,
      <<>>, HugeToken }

Argvs ==
    UNION {[1..n -> Tokens] : n \in (0..MaxArgs) \ {3}}
    \cup {<<d, a, b>> : d \in DayTokens, a \in Tokens, b \in Tokens}

Exit(argv, out, err, status) ==
    [ran |-> TRUE, argv |-> argv, stdout |-> out, stderr |-> err, status |-> status]

\* One run of the program with the arguments argv (sys.argv[1:]).
Main(argv) ==
    /\ pc = "idle"
    /\ pc' = "exited"
    /\ UNCHANGED earlier
    /\ IF Len(argv) # 3
       THEN /\ proc' = Exit(argv, <<>>, <<"usage">>, 1)
            /\ UNCHANGED <<PER_DIEM_TABLE, call, rng>>
       ELSE
       LET trip_duration_days == ParseInt(argv[1])
           miles_traveled == ParseFloat(argv[2])
           total_receipts_amount == ParseFloat(argv[3])
       IN  IF ~trip_duration_days.ok \/ ~miles_traveled.ok \/ ~total_receipts_amount.ok
           THEN /\ proc' = Exit(argv, <<>>, <<"invalid input">>, 1)
                /\ UNCHANGED <<PER_DIEM_TABLE, call, rng>>
           ELSE /\ Invoke(trip_duration_days.value, Whole(miles_traveled),
                          Whole(total_receipts_amount), FALSE, FALSE)
                /\ proc' = IF call'.out.raised = "none"
                           THEN Exit(argv, <<call'.out.result>>, <<>>, 0)
                           ELSE Exit(argv, <<>>, <<"traceback">>, 1)

Run ==
    /\ pc = "idle"
    /\ \E argv \in Argvs : Main(argv)

Next == Call \/ Run \/ Resume

Spec == Init /\ [][Next]_vars

----------------------------------------------------------------------------
\* A caller that calls again and again, on a small grid of inputs, and an
\* observer that keeps what every deterministic call returned.

Observed(c, s) ==
    [made |-> TRUE, use_system_date |-> c.use_system_date, rng |-> s,
     raised |-> c.out.raised, result |-> c.out.result]

CallObserved ==
    /\ pc = "idle"
    /\ \E i \in ProbeInputs, use_system_date \in BOOLEAN, add_noise \in BOOLEAN :
           /\ LibraryCall(i[1], i[2], i[3], use_system_date, add_noise)
           /\ earlier' = IF add_noise \/ earlier[i].made THEN earlier
                         ELSE [earlier EXCEPT ![i] = Observed(call', rng)]

NextHistory == CallObserved \/ Resume

SpecHistory == Init /\ [][NextHistory]_vars

----------------------------------------------------------------------------
\* Properties.

\* a call was made and returned an amount
Completed == call.made /\ call.out.raised = "none"

\* num/den dollars, in units
Money(num, den) == (num * Unit) \div den

\* an efficiency of exactly k
EffEQ(e, k) == e.num = k * e.den

\* C1.  Cap invariant: whenever a call returns with efficiency < 50, the
\* returned amount is at most days * 100, for both values of add_noise.
CapInvariant ==
    (Completed /\ EffLT(call.out.efficiency, 50))
        => call.out.result <= call.days * 100 * 100

\* Supporting check: without noise the returned amount is within the cap.
CapInvariantWithoutNoise ==
    (Completed /\ ~call.add_noise /\ EffLT(call.out.efficiency, 50))
        => call.out.result <= call.days * 100 * 100

Scenario(days, miles, receipts) ==
    /\ Completed
    /\ call.days = days /\ call.miles = miles /\ call.receipts = receipts
    /\ ~call.add_noise

\* C2 as claimed.  days=5, miles=500, receipts=600 without noise: Medium, per
\* diem 318.75 before the 5-day multiplier and 366.5625 after it, mileage 310,
\* receipt adjustment 401.578125, returned amount 1078.14.
BoundaryScenario2AsClaimed ==
    Scenario(5, 500, 600) =>
        /\ call.out.location = "Medium"
        /\ call.out.per_diem_base = Money(1275, 4)
        /\ call.out.per_diem = Money(5865, 16)
        /\ call.out.mileage_reimbursement = Money(310, 1)
        /\ call.out.receipt_adjustment = Money(51402, 128)
        /\ call.out.result = 107814

\* C2 as amended.  days=5, miles=500, receipts=600 without noise: Medium, per
\* diem 317.5 before the 5-day multiplier and 365.125 after it, mileage 310,
\* receipt adjustment 400.35625, returned amount 1075.48.
BoundaryScenario2 ==
    Scenario(5, 500, 600) =>
        /\ call.out.location = "Medium"
        /\ call.out.per_diem_base = Money(635, 2)
        /\ call.out.per_diem = Money(2921, 8)
        /\ call.out.mileage_reimbursement = Money(310, 1)
        /\ call.out.receipt_adjustment = Money(64057, 160)
        /\ call.out.result = 107548

BoundaryScenario2Reached == Scenario(5, 500, 600) /\ call.out.efficiency_branch = "none"

\* C3.  days=1, miles=10, receipts=0 without noise: Low, per diem 20, mileage
\* 0, receipt adjustment 20, cycle factor 0.85, a total of 34.0 that the
\* low-effort cap (100) leaves unchanged, returned amount 34.0.
BoundaryScenario1 ==
    Scenario(1, 10, 0) =>
        /\ call.out.location = "Low"
        /\ call.out.per_diem = Money(20, 1)
        /\ call.out.mileage_reimbursement = 0
        /\ call.out.receipt_adjustment = Money(20, 1)
        /\ call.out.cycle_factor = Frac(17, 20)
        /\ call.out.combined = Money(34, 1)
        /\ call.out.combined < Money(100, 1)
        /\ call.out.capped = call.out.combined
        /\ call.out.result = 3400

BoundaryScenario1Reached ==
    Scenario(1, 10, 0) /\ EffLT(call.out.efficiency, 50)

\* the arguments of the run are three, an int literal and two float literals
WellFormed(argv) ==
    /\ Len(argv) = 3
    /\ ParseInt(argv[1]).ok
    /\ ParseFloat(argv[2]).ok
    /\ ParseFloat(argv[3]).ok

\* C4.  Every run ends with status 0 or 1; with well-formed arguments it ends
\* with status 0 and the reimbursement on standard output; otherwise it ends
\* with status 1, the usage or the invalid-input message on standard error and
\* nothing on standard output.
CliOutcome ==
    proc.ran =>
        /\ proc.status \in {0, 1}
        /\ WellFormed(proc.argv) =>
              /\ proc.status = 0
              /\ Completed
              /\ proc.stdout = <<call.out.result>>
        /\ ~WellFormed(proc.argv) =>
              /\ proc.status = 1
              /\ proc.stderr \in {<<"usage">>, <<"invalid input">>}
              /\ proc.stdout = <<>>

\* Supporting check: the runs that do not end as C4 says are the runs whose
\* calculation raised; they end with status 1, a traceback on standard error
\* and nothing on standard output.
CliOutcomeUnlessRaised ==
    proc.ran =>
        /\ proc.status \in {0, 1}
        /\ (WellFormed(proc.argv) /\ Completed) =>
              /\ proc.status = 0
              /\ proc.stdout = <<call.out.result>>
              /\ proc.stderr = <<>>
        /\ (WellFormed(proc.argv) /\ ~Completed) =>
              /\ call.made /\ call.out.raised = "OverflowError"
              /\ proc.status = 1
              /\ proc.stderr = <<"traceback">>
              /\ proc.stdout = <<>>
        /\ ~WellFormed(proc.argv) =>
              /\ proc.status = 1
              /\ proc.stderr
                   = IF Len(proc.argv) # 3 THEN <<"usage">> ELSE <<"invalid input">>
              /\ proc.stdout = <<>>
              /\ ~call.made

\* 20 times a scaled amount, rounded down and rounded up to a unit
Times20Floor(a) == 20 * a.whole + (20 * a.frac) \div a.den
Times20Ceil(a) == 20 * a.whole + (20 * a.frac + a.den - 1) \div a.den

\* the amount a lies within 5% of the amount x (in units)
WithinFivePercent(a, x) ==
    IF x >= 0
    THEN 19 * x <= Times20Floor(a) /\ Times20Ceil(a) <= 21 * x
    ELSE 21 * x <= Times20Floor(a) /\ Times20Ceil(a) <= 19 * x

DeadPenaltyBranch ==
    Completed =>
        /\ call.out.efficiency_branch # "penalty"
        /\ call.out.efficiency_factor \in {Frac(1, 1), Frac(23, 20), Frac(6, 5)}
        /\ EffGT(call.out.efficiency, 300) => call.out.efficiency_factor = Frac(6, 5)
        /\ EffEQ(call.out.efficiency, 100) => call.out.efficiency_factor = Frac(1, 1)
        /\ EffEQ(call.out.efficiency, 200) => call.out.efficiency_factor = Frac(23, 20)

\* a call that meets the penalty branch's condition
DeadPenaltyBranchReached ==
    /\ Completed
    /\ EffGT(call.out.efficiency, 300) /\ call.days > 1
    /\ call.out.mileage_reimbursement > 0

\* C8.  No call raises; for days <= 0 no division is performed, efficiency is
\* 0, and the trip is Low unless miles > 800 and receipts > 1000.
NoCalculationErrors ==
    call.made =>
        /\ call.out.raised = "none"
        /\ call.days <= 0 =>
              /\ ~call.out.efficiency.divided
              /\ EffEQ(call.out.efficiency, 0)
              /\ IF call.miles > 800 /\ call.receipts > 1000
                 THEN call.out.location = "High"
                 ELSE call.out.location = "Low"

\* Supporting check: a call raises only when the days, times the sum of the
\* two rates of a location, are beyond the float range, and then it raises
\* OverflowError; every other call is as C8 says.
NoCalculationErrorsInFloatRange ==
    /\ (call.made /\ call.out.raised # "none") =>
          /\ call.out.raised = "OverflowError"
          /\ FloatOverflows(call.days) \/ FloatOverflows(20 * call.days)
    /\ (Completed /\ call.days <= 0) =>
          /\ ~call.out.efficiency.divided
          /\ EffEQ(call.out.efficiency, 0)
          /\ IF call.miles > 800 /\ call.receipts > 1000
             THEN call.out.location = "High"
             ELSE call.out.location = "Low"

InDomain14 ==
    /\ call.days \in 1..14 /\ call.miles >= 0 /\ call.receipts >= 0
    /\ EffLT(call.out.efficiency, 50)

\* C9.  For days in 1..14, miles >= 0, receipts >= 0 and efficiency < 50 the
\* combined amount is at most days * 100 and the cap returns it unchanged; the
\* cap changes the amount only when days <= 0 or the trip is High through
\* miles > 800 and receipts > 1000, with days > 16.
CapNeverBindsInDomain ==
    Completed =>
        /\ InDomain14 =>
              /\ call.out.combined <= call.days * 100 * Unit
              /\ call.out.capped = call.out.combined
        /\ call.out.capped # call.out.combined =>
              \/ call.days <= 0
              \/ /\ call.out.location = "High"
                 /\ call.miles > 800 /\ call.receipts > 1000
                 /\ call.days > 16

\* a low-effort trip of the documented domain that went through the cap
CapNeverBindsInDomainReached ==
    /\ Completed /\ InDomain14
    /\ call.days = 14 /\ call.miles > 600 /\ call.receipts > 1000

\* the cap does bind outside the domain
CapBindsOutsideDomain ==
    Completed /\ call.days > 16 /\ call.out.capped < call.out.combined

InDomain == call.days >= 1 /\ call.miles >= 0 /\ call.receipts >= 0

NegativeExcess ==
    /\ call.out.receipt_branch = "excess"
    /\ call.receipts * Unit < call.out.per_diem

\* C10.  For days >= 1, miles >= 0 and receipts >= 0 the returned amount is
\* not negative, with or without noise; in the third receipt branch a negative
\* excess puts the receipt adjustment below the per diem but not below 0: it
\* is 0.85 * per_diem + 0.15 * receipts.
NonNegativeInDomain ==
    (Completed /\ InDomain) =>
        /\ call.out.result >= 0
        /\ NegativeExcess =>
              /\ call.out.receipt_adjustment < call.out.per_diem
              /\ call.out.receipt_adjustment >= 0
              /\ 20 * call.out.receipt_adjustment
                    = 17 * call.out.per_diem + 3 * call.receipts * Unit

NonNegativeInDomainReached ==
    /\ Completed /\ InDomain /\ NegativeExcess
    /\ call.add_noise /\ call.out.result > 0

\* a negative amount, from inputs outside the domain
NegativeOutsideDomain == Completed /\ call.out.result < 0

====
